---- MODULE Spec2Model ----
(***************************************************************************)
(* redux-rs: a store holding a state, a reducer, a list of middlewares     *)
(* (effect handlers) and a list of subscriptions (src/src/store.rs), and   *)
(* the ActionId arithmetic of src/src/action.rs.                           *)
(*                                                                         *)
(* dispatch is modelled at the granularity of its calls: the call itself,  *)
(* the stamping of the action, dispatch_reducer (reducer followed by the   *)
(* subscriptions), one step per middleware invocation and the return.  A   *)
(* middleware receives &mut Store and may call dispatch again, so the      *)
(* dispatch calls in progress form a call stack.                           *)
(***************************************************************************)
EXTENDS Integers, Sequences, FiniteSets, TLC

\* ------------------------------------------------------------- bounds
\* dispatch calls (top-level and nested) per behaviour
MaxCycles == 3
\* middlewares registered by the caller between dispatches
MaxMw == 2
\* subscriptions registered by the caller
MaxSubs == 1
\* instants the time service may report: 0..MaxTime
MaxTime == 1
\* subscriptions registered when their order is followed
MaxListeners == 2
\* dispatch calls the call stack has room for
MaxDepth == 3
\* reducers combined by one chain_reducers!
MaxChain == 3
\* calls of a chained reducer per behaviour
MaxCalls == 2

\* ------------------------------------------------------------- values
Actions == {"Increment", "Decrement"}
InitialState == 0
Instants == 0..MaxTime

\* u64 values are held as four 16-bit limbs, most significant first, so that
\* the arithmetic keeps its 64-bit width.
LimbBits == 16
Limb == 2 ^ LimbBits
U64(n) == <<0, 0, 0, n>>
U64_MAX == <<Limb - 1, Limb - 1, Limb - 1, Limb - 1>>

\* x < y
U64Less(x, y) ==
    \E k \in 1..4 : x[k] < y[k] /\ \A j \in 1..(k - 1) : x[j] = y[j]

U64Max(x, y) == IF U64Less(x, y) THEN y ELSE x

\* x + y: the wrapped sum, and whether the sum left the 64 bits
U64Add(x, y) ==
    LET s4 == x[4] + y[4]
        s3 == x[3] + y[3] + (s4 \div Limb)
        s2 == x[2] + y[2] + (s3 \div Limb)
        s1 == x[1] + y[1] + (s2 \div Limb)
    IN [value |-> <<s1 % Limb, s2 % Limb, s3 % Limb, s4 % Limb>>,
        overflow |-> s1 >= Limb]

\* x - y for x >= y
U64Sub(x, y) ==
    LET d4 == x[4] - y[4]
        b4 == IF d4 < 0 THEN 1 ELSE 0
        d3 == x[3] - y[3] - b4
        b3 == IF d3 < 0 THEN 1 ELSE 0
        d2 == x[2] - y[2] - b3
        b2 == IF d2 < 0 THEN 1 ELSE 0
        d1 == x[1] - y[1] - b2
    IN <<d1 % Limb, d2 % Limb, d3 % Limb, d4 % Limb>>

\* ------------------------------------------------------------- ActionId
ZERO == U64(0)

\* the id the store starts from
InitialTime == ZERO

\* mutant of next: the floor of 1 is dropped
next_no_floor(id, time_passed) == U64Add(id, time_passed).value

\* mutant of next: the sum stops at the largest id
next_saturating(id, time_passed) ==
    IF U64Add(id, U64Max(time_passed, U64(1))).overflow
    THEN U64_MAX
    ELSE U64Add(id, U64Max(time_passed, U64(1))).value

\* ActionId::next: Self(self.0 + time_passed.max(1)); the value is the one a
\* build without overflow checks yields.
next(id, time_passed) == U64Add(id, U64Max(time_passed, U64(1))).value

\* mutant of duration_since: the subtraction wraps instead of flooring at zero
duration_since_wrapping(id, other) == U64Sub(id, other)

\* ActionId::duration_since: checked_sub(..).unwrap_or(0), in nanoseconds
duration_since(id, other) == IF U64Less(id, other) THEN U64(0) ELSE U64Sub(id, other)

\* Instant::duration_since(earlier) as nanoseconds: zero if earlier is later
InstantDurationSince(t, earlier) == IF t >= earlier THEN U64(t - earlier) ELSE U64(0)

\* ------------------------------------------------------------- reducers
\* The reducers a caller hands to the store (the examples of reducer.rs).
counter_reducer(s, a) == IF a.action = "Increment" THEN s + 1 ELSE s - 1

add_two_reducer(s, a) == s + 2

\* Two more reducers of a caller, for the chains: one adds one whatever the
\* action, one depends on the state it is given.
add_one_reducer(s, a) == s + 1

double_reducer(s, a) == s * 2

Reducers == {"counter_reducer", "add_two_reducer"}

\* The reducers a caller lists in chain_reducers!
Chainable == Reducers \cup {"add_one_reducer", "double_reducer"}

\* mutant of CallReducer: the reducer works on a copy of the state
CallReducerOnCopy(r, s, a) == s

\* Calling the function pointer r with (&mut state, &action).
CallReducer(r, s, a) ==
    CASE r = "counter_reducer" -> counter_reducer(s, a)
      [] r = "add_one_reducer" -> add_one_reducer(s, a)
      [] r = "double_reducer" -> double_reducer(s, a)
      [] OTHER -> add_two_reducer(s, a)

\* ------------------------------------------------------------- handlers
\* Middlewares are fn(&mut Store, &action).  The ones registered here:
\*   logger     reads store.state() and returns
\*   inc_once   if *store.state() == 1 { store.dispatch(Increment) }
\*   swapper    store.replace_reducer(add_two_reducer)
\*   adder      store.add_middleware(logger)
Middlewares == {"logger", "inc_once", "swapper", "adder"}

\* Subscriptions are fn(&State).
Subscriptions == {"listener"}

VARIABLES
    reducer,          \* Store.reducer
    state,            \* Store.state.inner
    middlewares,      \* Store.middlewares
    subscriptions,    \* Store.subscriptions
    last_action_id,   \* the last issued ActionId
    monotonic_time,   \* the instant recorded by the last dispatch
    stack,            \* the dispatch calls in progress, innermost last
    ncycles,          \* dispatch calls made so far
    log,              \* what happened since the last dispatch from outside, in order
    calc              \* an evaluation of the ActionId arithmetic

vars == <<reducer, state, middlewares, subscriptions, last_action_id,
          monotonic_time, stack, ncycles, log, calc>>

NoCalc == [op |-> "none", a |-> ZERO, b |-> ZERO, out |-> ZERO, panicked |-> FALSE]

\* One entry of the log.  k: what happened; c: the dispatch call it belongs
\* to; i: the index of the handler or subscription (for k = "reduce" the
\* number of middlewares registered); h: the function called;
\* a, id: the action and its id; s: the state seen (after the step);
\* p: the state before the step (for k = "dispatch" the calling dispatch, for
\* k = "stamp" the instant the service reported).
Event(k, c, i, h, a, id, s, p) ==
    [k |-> k, c |-> c, i |-> i, h |-> h, a |-> a, id |-> id, s |-> s, p |-> p]

\* ------------------------------------------------------------- the stack
\* A dispatch call in progress.  cid: its number in call order; parent: the
\* call whose middleware issued it (0 for a call from outside); id: the id
\* stamped on the action (0 before the stamping); pc: where it stands;
\* i, n: the loop variable and the bound of `for i in 0..self.middlewares.len()`.
Frame(cid, parent, a) ==
    [cid |-> cid, parent |-> parent, action |-> a, id |-> ZERO, pc |-> "stamp",
     i |-> 0, n |-> 0]

Idle == stack = <<>>

\* The running dispatch call is the innermost one.
Top == stack[Len(stack)]

Below == SubSeq(stack, 1, Len(stack) - 1)

\* The action as the reducer and the middlewares receive it.
Stamped(f) == [id |-> f.id, action |-> f.action]

\* mutant of NextPc: the middlewares run before the reducer
NextPcMiddlewareFirst(pc) ==
    CASE pc = "stamp" -> "effects"
      [] pc = "effects" -> "reduce"
      [] OTHER -> "done"

\* The order of the statements of dispatch: the action is stamped, then
\* dispatch_reducer, then the loop over the middlewares, then the return.
NextPc(pc) ==
    CASE pc = "stamp" -> "reduce"
      [] pc = "reduce" -> "effects"
      [] OTHER -> "done"

\* mutant of Enter: the loop stops one middleware short
EnterShort(f, pc) ==
    IF pc = "effects"
    THEN [f EXCEPT !.pc = pc, !.i = 0,
                   !.n = IF middlewares = <<>> THEN 0 ELSE Len(middlewares) - 1]
    ELSE [f EXCEPT !.pc = pc]

\* The frame on reaching statement pc; the range of the loop is evaluated
\* once, when the loop is reached.
Enter(f, pc) ==
    IF pc = "effects"
    THEN [f EXCEPT !.pc = pc, !.i = 0, !.n = Len(middlewares)]
    ELSE [f EXCEPT !.pc = pc]

\* The stack once the running call has returned: the middleware that issued
\* it returns too, and the caller's loop moves on to the next middleware.
Returned ==
    IF Below # <<>> /\ Below[Len(Below)].pc = "in_middleware"
                    /\ Below[Len(Below)].cid = Top.parent
    THEN [Below EXCEPT ![Len(Below)].pc = "effects", ![Len(Below)].i = @ + 1]
    ELSE Below

\* The running call has finished the statement it stood at, during which
\* evs happened and which left the state s: it goes on to the next
\* statement, or returns.
Continue(f, evs, s) ==
    IF NextPc(f.pc) = "done"
    THEN /\ stack' = Returned
         /\ log' = log \o evs \o
                <<Event("return", f.cid, 0, "dispatch", f.action, f.id, s, s)>>
    ELSE /\ stack' = [stack EXCEPT ![Len(stack)] = Enter(f, NextPc(f.pc))]
         /\ log' = log \o evs

\* ------------------------------------------------------------- Store
\* Store::new
Init ==
    /\ reducer = "counter_reducer"
    /\ state = InitialState
    /\ middlewares = <<>>
    /\ subscriptions = <<>>
    /\ last_action_id = InitialTime
    /\ monotonic_time = 0
    /\ stack = <<>>
    /\ ncycles = 0
    /\ log = <<>>
    /\ calc = NoCalc

\* mutant of replace_reducer: the state is reset along with the reducer
replace_reducer_reset(r) ==
    /\ reducer' = r
    /\ state' = InitialState

\* mutant of replace_reducer: the store keeps the reducer it has
replace_reducer_dropped(r) ==
    /\ reducer' = reducer
    /\ state' = state

\* Store::replace_reducer: self.reducer = reducer
replace_reducer(r) ==
    /\ reducer' = r
    /\ state' = state

\* mutant of add_middleware: the middleware is put in front
add_middleware_front(m) ==
    middlewares' = <<m>> \o middlewares

\* Store::add_middleware: self.middlewares.push(middleware)
add_middleware(m) ==
    middlewares' = Append(middlewares, m)

\* Store::subscribe: self.subscriptions.push(callback)
subscribe(cb) ==
    subscriptions' = Append(subscriptions, cb)

\* mutant of CallDispatch: the action is queued and handled once the calls in
\* progress have returned
CallDispatchDeferred(f, a, evs) ==
    /\ ncycles' = ncycles + 1
    /\ stack' = <<Frame(ncycles + 1, f.cid, a)>> \o Below \o <<[f EXCEPT !.i = @ + 1]>>
    /\ log' = log \o evs \o
            <<Event("dispatch", ncycles + 1, f.i, "dispatch", a, ZERO, state, f.cid)>>

\* mutant of CallDispatch: a dispatch of an action that is already being
\* dispatched is dropped
CallDispatchDetectingCycles(f, a, evs) ==
    IF \E k \in DOMAIN stack : stack[k].action = a
    THEN /\ ncycles' = ncycles
         /\ stack' = Below \o <<[f EXCEPT !.i = @ + 1]>>
         /\ log' = log \o evs
    ELSE /\ ncycles' = ncycles + 1
         /\ stack' = Below \o <<[f EXCEPT !.pc = "in_middleware"], Frame(ncycles + 1, f.cid, a)>>
         /\ log' = log \o evs \o
                 <<Event("dispatch", ncycles + 1, f.i, "dispatch", a, ZERO, state, f.cid)>>

\* store.dispatch(a) called by middleware f.i of the running call f: a
\* synchronous call, the caller waits inside the middleware.
CallDispatch(f, a, evs) ==
    /\ ncycles' = ncycles + 1
    /\ stack' = Below \o <<[f EXCEPT !.pc = "in_middleware"], Frame(ncycles + 1, f.cid, a)>>
    /\ log' = log \o evs \o
            <<Event("dispatch", ncycles + 1, f.i, "dispatch", a, ZERO, state, f.cid)>>

\* ---- operations of the caller, between dispatches

\* store.dispatch(a), from outside
Dispatch(a) ==
    /\ Idle
    /\ ncycles < MaxCycles
    /\ ncycles' = ncycles + 1
    /\ stack' = <<Frame(ncycles + 1, 0, a)>>
    /\ log' = <<Event("dispatch", ncycles + 1, 0, "dispatch", a, ZERO, state, 0)>>
    /\ UNCHANGED <<reducer, state, middlewares, subscriptions,
                   last_action_id, monotonic_time, calc>>

\* store.state()
State ==
    /\ Idle
    /\ UNCHANGED vars

\* store.service(): a reference to the service, which is the caller's
Service ==
    /\ Idle
    /\ UNCHANGED vars

Subscribe(cb) ==
    /\ Idle
    /\ Len(subscriptions) < MaxSubs
    /\ subscribe(cb)
    /\ UNCHANGED <<reducer, state, middlewares, last_action_id,
                   monotonic_time, stack, ncycles, log, calc>>

AddMiddleware(m) ==
    /\ Idle
    /\ Len(middlewares) < MaxMw
    /\ add_middleware(m)
    /\ UNCHANGED <<reducer, state, subscriptions, last_action_id,
                   monotonic_time, stack, ncycles, log, calc>>

ReplaceReducer(r) ==
    /\ Idle
    /\ replace_reducer(r)
    /\ UNCHANGED <<middlewares, subscriptions, last_action_id,
                   monotonic_time, stack, ncycles, log, calc>>

\* ---- the steps of a dispatch call

\* The action is stamped: the service reports the instant t, the time passed
\* since the recorded instant (none if t is not later) advances the last
\* issued id, and the action gets that id.
Stamp(t) ==
    /\ ~Idle
    /\ Top.pc = "stamp"
    /\ LET time_passed == InstantDurationSince(t, monotonic_time)
           id == next(last_action_id, time_passed)
           f == [Top EXCEPT !.id = id]
       IN /\ monotonic_time' = t
          /\ last_action_id' = id
          /\ Continue(f, <<Event("stamp", f.cid, 0, "next", f.action, id, state, t)>>, state)
    /\ UNCHANGED <<reducer, state, middlewares, subscriptions, ncycles, calc>>

\* mutant of SubscriptionEvents: the subscriptions are given the state the
\* reducer was called on
SubscriptionEventsStale(f, s) ==
    [j \in 1..Len(subscriptions) |->
        Event("sub", f.cid, j - 1, subscriptions[j], f.action, f.id, state, state)]

\* dispatch_subscriptions: every subscription is called with self.state()
SubscriptionEvents(f, s) ==
    [j \in 1..Len(subscriptions) |->
        Event("sub", f.cid, j - 1, subscriptions[j], f.action, f.id, s, s)]

\* dispatch_reducer: the reducer is called with the state and the action,
\* then the subscriptions.
DispatchReducer ==
    /\ ~Idle
    /\ Top.pc = "reduce"
    /\ LET s == CallReducer(reducer, state, Stamped(Top))
       IN /\ state' = s
          /\ Continue(Top, <<Event("reduce", Top.cid, Len(middlewares), reducer, Top.action, Top.id, s, state)>>
                           \o SubscriptionEvents(Top, s), s)
    /\ UNCHANGED <<reducer, middlewares, subscriptions, last_action_id,
                   monotonic_time, ncycles, calc>>

\* self.middlewares[i](self, &action)
MiddlewareEvent(f) ==
    Event("mw", f.cid, f.i, middlewares[f.i + 1], f.action, f.id, state, state)

\* mutant of MiddlewareReturns: the bound of the loop is read again at every
\* iteration
MiddlewareReturnsRereadingLen(f) ==
    /\ stack' = [stack EXCEPT ![Len(stack)] =
                    [f EXCEPT !.i = @ + 1,
                              !.n = Len(middlewares) +
                                    (IF middlewares[f.i + 1] = "adder" THEN 1 ELSE 0)]]
    /\ log' = Append(log, MiddlewareEvent(f))
    /\ ncycles' = ncycles

\* The middleware returns without calling dispatch: the loop moves on.
MiddlewareReturns(f) ==
    /\ stack' = [stack EXCEPT ![Len(stack)] = [f EXCEPT !.i = @ + 1]]
    /\ log' = Append(log, MiddlewareEvent(f))
    /\ ncycles' = ncycles

CallMiddleware ==
    /\ ~Idle
    /\ Top.pc = "effects"
    /\ Top.i < Top.n
    /\ LET f == Top
           h == middlewares[f.i + 1]
       IN \/ /\ h = "logger"
             /\ MiddlewareReturns(f)
             /\ UNCHANGED <<reducer, state, middlewares>>
          \/ /\ h = "inc_once"
             /\ state = 1
             /\ ncycles < MaxCycles
             /\ CallDispatch(f, "Increment", <<MiddlewareEvent(f)>>)
             /\ UNCHANGED <<reducer, state, middlewares>>
          \/ /\ h = "inc_once"
             /\ state # 1
             /\ MiddlewareReturns(f)
             /\ UNCHANGED <<reducer, state, middlewares>>
          \/ /\ h = "swapper"
             /\ replace_reducer("add_two_reducer")
             /\ MiddlewareReturns(f)
             /\ UNCHANGED middlewares
          \/ /\ h = "adder"
             /\ add_middleware("logger")
             /\ MiddlewareReturns(f)
             /\ UNCHANGED <<reducer, state>>
    /\ UNCHANGED <<subscriptions, last_action_id, monotonic_time, calc>>

\* The loop over the middlewares is over.
EndEffects ==
    /\ ~Idle
    /\ Top.pc = "effects"
    /\ Top.i = Top.n
    /\ Continue(Top, <<>>, state)
    /\ UNCHANGED <<reducer, state, middlewares, subscriptions,
                   last_action_id, monotonic_time, ncycles, calc>>

Next ==
    \/ \E a \in Actions : Dispatch(a)
    \/ State
    \/ Service
    \/ \E cb \in Subscriptions : Subscribe(cb)
    \/ \E m \in Middlewares : AddMiddleware(m)
    \/ \E r \in Reducers : ReplaceReducer(r)
    \/ \E t \in Instants : Stamp(t)
    \/ DispatchReducer
    \/ CallMiddleware
    \/ EndEffects

Spec == Init /\ [][Next]_vars

\* ------------------------------------------------------------- the ActionId arithmetic alone
\* Ids and times the arithmetic is evaluated on: the low end, a carry between
\* limbs and the top of the 64 bits.
IdInputs ==
    {U64(0), U64(1), U64(2), U64(Limb - 1), <<0, 0, 1, 0>>,
     <<Limb - 1, Limb - 1, Limb - 1, Limb - 3>>,
     <<Limb - 1, Limb - 1, Limb - 1, Limb - 2>>, U64_MAX}

InitIds ==
    /\ reducer = "counter_reducer"
    /\ state = InitialState
    /\ middlewares = <<>>
    /\ subscriptions = <<>>
    /\ last_action_id = InitialTime
    /\ monotonic_time = 0
    /\ stack = <<>>
    /\ ncycles = 0
    /\ log = <<>>
    /\ calc \in {[op |-> "args", a |-> x, b |-> y, out |-> ZERO, panicked |-> FALSE] :
                  x \in IdInputs, y \in IdInputs}

\* id.next(time_passed).  The addition is a plain `+` on u64: a build with
\* overflow checks panics when the sum leaves the 64 bits, a build without
\* them wraps.
CalcNext(overflow_checks) ==
    /\ calc.op = "args"
    /\ LET sum == U64Add(calc.a, U64Max(calc.b, U64(1)))
       IN \/ /\ sum.overflow
             /\ overflow_checks
             /\ calc' = [calc EXCEPT !.op = "next", !.panicked = TRUE]
          \/ /\ ~(sum.overflow /\ overflow_checks)
             /\ calc' = [calc EXCEPT !.op = "next", !.out = next(calc.a, calc.b)]
    /\ UNCHANGED <<reducer, state, middlewares, subscriptions, last_action_id,
                   monotonic_time, stack, ncycles, log>>

\* id.duration_since(other)
CalcDurationSince ==
    /\ calc.op = "args"
    /\ calc' = [calc EXCEPT !.op = "duration_since", !.out = duration_since(calc.a, calc.b)]
    /\ UNCHANGED <<reducer, state, middlewares, subscriptions, last_action_id,
                   monotonic_time, stack, ncycles, log>>

NextIds ==
    \/ \E overflow_checks \in BOOLEAN : CalcNext(overflow_checks)
    \/ CalcDurationSince

SpecIds == InitIds /\ [][NextIds]_vars

\* ------------------------------------------------------------- a store run to completion
\* One more middleware of a caller:
\*   redispatch   store.dispatch(action), whatever the state
Handlers == Middlewares \cup {"redispatch"}

\* The middleware redispatch is called: it calls dispatch with the action it
\* was given.  The store keeps no count of the calls in progress; a call the
\* call stack has no room for ends the process.
CallRedispatch ==
    /\ ~Idle
    /\ Top.pc = "effects"
    /\ Top.i < Top.n
    /\ middlewares[Top.i + 1] = "redispatch"
    /\ \/ /\ Len(stack) < MaxDepth
          /\ CallDispatch(Top, Top.action, <<MiddlewareEvent(Top)>>)
       \/ /\ Len(stack) = MaxDepth
          /\ stack' = [stack EXCEPT ![Len(stack)].pc = "exhausted"]
          /\ log' = Append(log, MiddlewareEvent(Top))
          /\ ncycles' = ncycles
    /\ UNCHANGED <<reducer, state, middlewares, subscriptions, last_action_id,
                   monotonic_time, calc>>

\* store.dispatch(a), from outside, by a caller that leaves the nested call
\* of inc_once its place under MaxCycles
DispatchLeavingRoom(a) ==
    /\ ncycles + 1 < MaxCycles
    /\ Dispatch(a)

\* store.add_middleware(m), from outside
AddHandler(m) ==
    /\ Idle
    /\ Len(middlewares) < MaxMw
    /\ add_middleware(m)
    /\ UNCHANGED <<reducer, state, subscriptions, last_action_id,
                   monotonic_time, stack, ncycles, log, calc>>

\* The stamping with a clock that has not moved (the instants reported have
\* no bearing on what a dispatch calls)
StampAtOnce == Stamp(monotonic_time)

\* The steps of the dispatch calls in progress
Running ==
    \/ StampAtOnce
    \/ DispatchReducer
    \/ CallMiddleware
    \/ CallRedispatch
    \/ EndEffects

NextLive ==
    \/ \E a \in Actions : DispatchLeavingRoom(a)
    \/ \E m \in Handlers : AddHandler(m)
    \/ Running

\* dispatch is a synchronous call on the caller's thread: a call in progress
\* goes on to its next statement.
SpecLive == Init /\ [][NextLive]_vars /\ WF_vars(Running)

\* ------------------------------------------------------------- a store with several subscriptions
\* One more subscription of a caller besides listener, so that the order of
\* two calls shows.
Listeners == Subscriptions \cup {"printer"}

\* store.subscribe(cb), from outside
SubscribeListener(cb) ==
    /\ Idle
    /\ Len(subscriptions) < MaxListeners
    /\ subscribe(cb)
    /\ UNCHANGED <<reducer, state, middlewares, last_action_id,
                   monotonic_time, stack, ncycles, log, calc>>

NextSubs ==
    \/ \E a \in Actions : Dispatch(a)
    \/ \E cb \in Listeners : SubscribeListener(cb)
    \/ \E m \in Middlewares : AddMiddleware(m)
    \/ StampAtOnce
    \/ DispatchReducer
    \/ CallMiddleware
    \/ EndEffects

SpecSubs == Init /\ [][NextSubs]_vars

\* ------------------------------------------------------------- a store without middlewares
\* Store::new with either reducer; no middleware is ever registered.
InitFold ==
    /\ reducer \in Reducers
    /\ state = InitialState
    /\ middlewares = <<>>
    /\ subscriptions = <<>>
    /\ last_action_id = InitialTime
    /\ monotonic_time = 0
    /\ stack = <<>>
    /\ ncycles = 0
    /\ log = <<>>
    /\ calc = NoCalc

\* store.dispatch(a), from outside; the log is kept over the dispatches.
DispatchLogged(a) ==
    /\ Idle
    /\ ncycles < MaxCycles
    /\ ncycles' = ncycles + 1
    /\ stack' = <<Frame(ncycles + 1, 0, a)>>
    /\ log' = Append(log, Event("dispatch", ncycles + 1, 0, "dispatch", a, ZERO, state, 0))
    /\ UNCHANGED <<reducer, state, middlewares, subscriptions,
                   last_action_id, monotonic_time, calc>>

NextFold ==
    \/ \E a \in Actions : DispatchLogged(a)
    \/ \E cb \in Subscriptions : Subscribe(cb)
    \/ \E t \in Instants : Stamp(t)
    \/ DispatchReducer
    \/ EndEffects

SpecFold == InitFold /\ [][NextFold]_vars

\* ------------------------------------------------------------- chain_reducers! alone
\* The call $reducer($state, $action): what was called, on which state (p)
\* and action, and the state it left (s).
ReducerCall(r, s, a) ==
    Event("reduce", 0, 0, r, a.action, a.id, CallReducer(r, s, a), s)

\* mutant of chain_reducers: every reducer is given the state the chained
\* reducer was called with
chain_reducers_unchained(rs, s, a) ==
    [i \in 1..Len(rs) |-> ReducerCall(rs[i], s, a)]

\* chain_reducers!(state, action, r1, ..., rn): the first arm is the call of a
\* single reducer, the second the calls r1(state, action); ...; rn(state,
\* action) one after the other on the same &mut state.  The value is the
\* sequence of the calls made.
RECURSIVE chain_reducers(_, _, _)
chain_reducers(rs, s, a) ==
    IF Len(rs) = 1
    THEN <<ReducerCall(rs[1], s, a)>>
    ELSE LET first == ReducerCall(Head(rs), s, a)
         IN <<first>> \o chain_reducers(Tail(rs), first.s, a)

\* The lists of 1..n reducers
RECURSIVE Chains(_)
Chains(n) ==
    IF n = 0 THEN {}
    ELSE Chains(n - 1) \cup [1..n -> Chainable]

\* A caller has built a reducer with chain_reducers!; the variable reducer
\* holds the list it was built from.
InitChain ==
    /\ reducer \in Chains(MaxChain)
    /\ state = InitialState
    /\ middlewares = <<>>
    /\ subscriptions = <<>>
    /\ last_action_id = InitialTime
    /\ monotonic_time = 0
    /\ stack = <<>>
    /\ ncycles = 0
    /\ log = <<>>
    /\ calc = NoCalc

\* reducer(&mut state, &action) for the chained reducer; log holds the calls
\* it made.
CallChained(a) ==
    /\ ncycles < MaxCalls
    /\ LET calls == chain_reducers(reducer, state, [id |-> U64(ncycles + 1), action |-> a])
       IN /\ log' = calls
          /\ state' = calls[Len(calls)].s
    /\ ncycles' = ncycles + 1
    /\ UNCHANGED <<reducer, middlewares, subscriptions, last_action_id,
                   monotonic_time, stack, calc>>

NextChain == \E a \in Actions : CallChained(a)

SpecChain == InitChain /\ [][NextChain]_vars

\* ------------------------------------------------------------- properties
Positions == DOMAIN log

Is(j, k) == log[j].k = k

DispatchOf(c) == CHOOSE j \in Positions : Is(j, "dispatch") /\ log[j].c = c

Reduces(c) == {j \in Positions : Is(j, "reduce") /\ log[j].c = c}

Calls(c, i) == {j \in Positions : Is(j, "mw") /\ log[j].c = c /\ log[j].i = i}

Nested(c) == {j \in Positions : Is(j, "dispatch") /\ log[j].p = c}

\* r(s, a) for the reducer named r
Reduced(r, s, a) ==
    IF r = "counter_reducer"
    THEN (IF a = "Increment" THEN s + 1 ELSE s - 1)
    ELSE s + 2

\* At the return of a call: the reducer ran once, on the state the call found
\* and on the stamped action, and each middleware registered then was called
\* once with that same stamped action.
ReducedOnceCalledOnce(ret) ==
    LET c == log[ret].c
        d == DispatchOf(c)
    IN /\ Cardinality(Reduces(c)) = 1
       /\ \A r \in Reduces(c) :
            /\ log[r].p = log[d].s
            /\ log[r].s = Reduced(log[r].h, log[d].s, log[r].a)
            /\ log[r].a = log[d].a
            /\ log[r].id = log[ret].id
            /\ \A i \in 0..(log[r].i - 1) :
                 /\ Cardinality(Calls(c, i)) = 1
                 /\ \A m \in Calls(c, i) : log[m].a = log[r].a /\ log[m].id = log[r].id
            /\ \A m \in Positions :
                 (Is(m, "mw") /\ log[m].c = c) => log[m].i < log[r].i

\* C2 as stated: when dispatch(a) returns, the state is r(state_before,
\* stamp(a)) and every handler was called once with the stamped action.
StateAtReturnIsReduced ==
    \A ret \in Positions :
        Is(ret, "return") =>
            /\ ReducedOnceCalledOnce(ret)
            /\ \A r \in Reduces(log[ret].c) : log[ret].s = log[r].s

\* C2, amended: when dispatch(a) returns, the reducer has run once and left
\* r(state_before, stamp(a)), each handler registered when the loop started
\* was called once with the identical stamped action, and the state at the
\* return is the one the reducer left unless a handler of this call
\* dispatched.
StateAtReturnIsReducedUnlessNested ==
    \A ret \in Positions :
        Is(ret, "return") =>
            /\ ReducedOnceCalledOnce(ret)
            /\ Nested(log[ret].c) = {} =>
                    \A r \in Reduces(log[ret].c) : log[ret].s = log[r].s

\* C2 witness: a call with two handlers and no nested dispatch has returned,
\* and so has a call one of whose handlers dispatched.
StateAtReturnWitness ==
    /\ \E ret \in Positions :
            /\ Is(ret, "return") /\ Nested(log[ret].c) = {}
            /\ Calls(log[ret].c, 1) # {}
    /\ \E ret \in Positions :
            /\ Is(ret, "return") /\ Nested(log[ret].c) # {}
            /\ \A r \in Reduces(log[ret].c) : log[ret].s # log[r].s

MiddlewaresBeforeReducer ==
    \A m, r \in Positions :
        (Is(m, "mw") /\ Is(r, "reduce") /\ log[m].c = log[r].c) => m < r

\* C5: a dispatch issued by handler i of a call has returned before handler
\* i + 1 (or any later handler) of that call is called, and nothing of the
\* issuing call happens between the nested call and its return: the handlers
\* run in depth-first order.
NestedBeforeRemainingHandlers ==
    \A d \in Positions :
        (Is(d, "dispatch") /\ log[d].p # 0) =>
            \A e \in Positions :
                (d < e /\ log[e].c = log[d].p) =>
                    \E ret \in Positions :
                        /\ d < ret /\ ret < e
                        /\ Is(ret, "return") /\ log[ret].c = log[d].c

\* C5 witness: the first of two handlers dispatched, the nested call ran its
\* reducer and its own two handlers and returned, and then the second
\* handler of the outer call ran.
NestedBeforeRemainingHandlersWitness ==
    \E d, e \in Positions :
        /\ Is(d, "dispatch") /\ log[d].p # 0 /\ log[d].i = 0
        /\ Is(e, "mw") /\ log[e].c = log[d].p /\ log[e].i = 1
        /\ d < e
        /\ Reduces(log[d].c) # {}
        /\ Calls(log[d].c, 1) # {}

\* The step is a run of the reducer by the running call.
ReducerStep ==
    /\ stack # <<>>
    /\ Top.pc = "reduce"
    /\ state' = CallReducer(reducer, state, Stamped(Top))

\* C6: the state changes only in the reducer step of a dispatch: every other
\* step (state(), service(), subscribe, add_middleware, replace_reducer, the
\* subscriptions, a handler) leaves it as it is.
StateChangesOnlyInReducer ==
    [][state' # state => ReducerStep]_vars

\* C6 witness: with a subscription registered, a handler has replaced the
\* reducer, another has registered a middleware, and the state is the one the
\* reducer left.
StateChangesOnlyInReducerWitness ==
    /\ Idle
    /\ subscriptions # <<>>
    /\ \E m, a, r \in Positions :
        /\ Is(m, "mw") /\ log[m].h = "swapper"
        /\ Is(a, "mw") /\ log[a].h = "adder"
        /\ Is(r, "reduce") /\ r < m /\ r < a
        /\ log[r].s # log[r].p
        /\ state = log[r].s
        /\ \E s \in Positions : Is(s, "sub") /\ r < s
    /\ reducer = "add_two_reducer"

\* C7 as stated: the reducer used by dispatch and the handlers run by
\* dispatch are the ones the store was constructed with (Store::new takes the
\* reducer and starts with no handler).
ReducerAndHandlersFixed ==
    /\ reducer = "counter_reducer"
    /\ middlewares = <<>>
    /\ \A j \in Positions :
        /\ Is(j, "reduce") => log[j].h = "counter_reducer"
        /\ ~Is(j, "mw")

\* The step is a call of replace_reducer, by the caller or by a handler.
ReplaceReducerCall ==
    \/ \E r \in Reducers : ReplaceReducer(r)
    \/ CallMiddleware /\ middlewares[Top.i + 1] = "swapper"

\* The step is a call of add_middleware, by the caller or by a handler.
AddMiddlewareCall ==
    \/ \E m \in Middlewares : AddMiddleware(m)
    \/ CallMiddleware /\ middlewares[Top.i + 1] = "adder"

\* C7, amended: the reducer changes only in a call of replace_reducer and the
\* handlers change only in a call of add_middleware, which appends one handler
\* and leaves the handlers registered before where they are; every other
\* operation leaves both as they are.
ReducerAndHandlersChangeOnlyByCall ==
    [][/\ reducer' # reducer => ReplaceReducerCall /\ middlewares' = middlewares
       /\ middlewares' # middlewares =>
            /\ AddMiddlewareCall
            /\ reducer' = reducer
            /\ \E m \in Middlewares : middlewares' = Append(middlewares, m)]_vars

\* C7 witness: the reducer was replaced and two handlers were registered, one
\* of them by a handler, and a dispatch ran with them.
ReducerAndHandlersChangeWitness ==
    /\ Idle
    /\ reducer # "counter_reducer"
    /\ Len(middlewares) = 2
    /\ \E m \in Positions : Is(m, "mw") /\ log[m].h = "adder"
    /\ \E r \in Positions : Is(r, "reduce") /\ log[r].h = "add_two_reducer"

\* C8 as stated: an action is processed fully before the store starts
\* processing any other action, and no two dispatch calls are in progress at
\* once.
OneCycleAtATime ==
    /\ Len(stack) <= 1
    /\ \A d, e \in Positions :
        (d < e /\ Is(d, "dispatch") /\ Is(e, "dispatch")) =>
            \E ret \in Positions :
                ret < e /\ Is(ret, "return") /\ log[ret].c = log[d].c

\* The calls that were made and have not returned
InProgress ==
    {log[d].c : d \in {j \in Positions :
        /\ Is(j, "dispatch")
        /\ ~\E ret \in Positions : Is(ret, "return") /\ log[ret].c = log[j].c}}

\* C8, amended: the dispatch calls in progress are one call made from outside
\* and the calls nested in it, each issued by a handler of the one before; only
\* the innermost runs, every other waits inside the handler that issued the
\* next; a call that was made and has not returned is one of these (no action
\* is queued), and a call from outside is made only when none is in progress.
CyclesStrictlyNested ==
    /\ \A k \in DOMAIN stack :
        /\ stack[k].parent = IF k = 1 THEN 0 ELSE stack[k - 1].cid
        /\ k < Len(stack) => stack[k].pc = "in_middleware"
        /\ k = Len(stack) => stack[k].pc # "in_middleware"
    /\ InProgress = {stack[k].cid : k \in DOMAIN stack}
    /\ \A d \in Positions : (Is(d, "dispatch") /\ log[d].p = 0) => d = 1

\* C8 witness: a call issued by a handler is running its own handlers while
\* the call that issued it waits.
CyclesStrictlyNestedWitness ==
    /\ Len(stack) = 2
    /\ stack[1].pc = "in_middleware"
    /\ stack[2].pc = "effects"
    /\ stack[2].i = 1

Phase(stk, c) ==
    IF \E k \in DOMAIN stk : stk[k].cid = c
    THEN LET f == stk[CHOOSE k \in DOMAIN stk : stk[k].cid = c]
         IN CASE f.pc = "stamp" -> "Stamping"
              [] f.pc = "reduce" -> "Reducing"
              [] OTHER -> "Effecting"
    ELSE "Idle"

PhaseOrder ==
    {<<"Idle", "Stamping">>, <<"Stamping", "Reducing">>,
     <<"Reducing", "Effecting">>, <<"Effecting", "Idle">>}

NextFits(previous, elapsed) ==
    ~U64Less(U64Sub(U64_MAX, previous), U64Max(elapsed, U64(1)))

\* The result of next is previous + max(elapsed, 1): it is not below
\* previous and exceeds it by elapsed, or by 1 when elapsed is 0.
NextIsSum ==
    /\ ~calc.panicked
    /\ ~U64Less(calc.out, calc.a)
    /\ U64Sub(calc.out, calc.a) = (IF calc.b = U64(0) THEN U64(1) ELSE calc.b)

\* C10 as stated: next(previous, elapsed) is previous + max(elapsed, 1), for
\* every previous and elapsed.
NextAddsElapsedOrOneAlways ==
    calc.op = "next" => NextIsSum

\* C10, amended: whenever previous + max(elapsed, 1) is at most 2^64 - 1,
\* next(previous, elapsed) is previous + max(elapsed, 1): the id advances by
\* exactly elapsed for elapsed >= 1 and by exactly 1 for elapsed = 0.
NextAddsElapsedOrOne ==
    (calc.op = "next" /\ NextFits(calc.a, calc.b)) => NextIsSum

\* C10 witness: with no time passed the id 2^16 - 1 advanced by 1, into the
\* next limb.
NextAddsElapsedOrOneWitness ==
    /\ calc.op = "next"
    /\ calc.a = U64(Limb - 1)
    /\ calc.b = U64(0)
    /\ calc.out = <<0, 0, 1, 0>>

\* C11: a.duration_since(b) is the saturating difference in nanoseconds: it is
\* a - b when a > b (adding it to b gives a back, within the 64 bits) and zero
\* whenever a <= b; it is never an error.
DurationSinceSaturates ==
    calc.op = "duration_since" =>
        /\ ~calc.panicked
        /\ U64Less(calc.b, calc.a) =>
                /\ U64Add(calc.b, calc.out).value = calc.a
                /\ ~U64Add(calc.b, calc.out).overflow
                /\ calc.out # ZERO
        /\ ~U64Less(calc.b, calc.a) => calc.out = ZERO

\* C11 witness: the difference of a smaller id and the largest id is zero.
DurationSinceSaturatesWitness ==
    /\ calc.op = "duration_since"
    /\ calc.a = U64(2)
    /\ calc.b = U64_MAX
    /\ calc.out = ZERO

\* The calls of middlewares made by call c, in the order they were made
MiddlewareCalls(c) == {j \in Positions : Is(j, "mw") /\ log[j].c = c}

\* C12: with several handlers registered, every dispatch cycle invokes each of
\* them exactly once, in registration order, and all receive the action the
\* reducer of that cycle received: the calls a cycle has made so far are those
\* of the first handlers in the order of the list, without a gap or a repeat,
\* each with the reducer's action and id, and a cycle that has returned has
\* called every handler registered when it reduced.
EachHandlerOnceInOrder ==
    \A r \in Positions :
        Is(r, "reduce") =>
            LET c == log[r].c
                n == log[r].i
            IN /\ Cardinality(MiddlewareCalls(c)) <= n
               /\ \A m \in MiddlewareCalls(c) :
                    /\ r < m
                    /\ log[m].i = Cardinality({k \in MiddlewareCalls(c) : k < m})
                    /\ log[m].h = middlewares[log[m].i + 1]
                    /\ log[m].a = log[r].a
                    /\ log[m].id = log[r].id
               /\ (\E ret \in Positions : Is(ret, "return") /\ log[ret].c = c)
                     => Cardinality(MiddlewareCalls(c)) = n

\* C12 witness: a nested cycle has returned after calling two different
\* handlers, the first registered first.
EachHandlerOnceInOrderWitness ==
    \E ret, d, m1, m2 \in Positions :
        /\ Is(ret, "return") /\ Is(d, "dispatch")
        /\ log[d].c = log[ret].c /\ log[d].p # 0
        /\ m1 < m2 /\ m2 < ret
        /\ m1 \in Calls(log[ret].c, 0) /\ m2 \in Calls(log[ret].c, 1)
        /\ log[m1].h # log[m2].h
        /\ log[m1].h = middlewares[1] /\ log[m2].h = middlewares[2]

\* r(s, a) for a reducer of a chain
Applied(r, s, a) ==
    CASE r = "counter_reducer" -> (IF a = "Increment" THEN s + 1 ELSE s - 1)
      [] r = "add_one_reducer" -> s + 1
      [] r = "add_two_reducer" -> s + 2
      [] r = "double_reducer" -> s + s

\* C13: a reducer built with chain_reducers! from r1..rn applies them in the
\* listed order on every call: the calls made are those of r1..rn in that
\* order, r1 on the state the chained reducer was given and each later one on
\* the state its predecessor left, all with the same action and id, and the
\* state left is the last one's; add_one then add_two takes 0 to 3 whatever the
\* action.
ChainAppliesInOrder ==
    [][ncycles' # ncycles =>
        /\ Len(log') = Len(reducer)
        /\ \A i \in DOMAIN log' :
              /\ log'[i].h = reducer[i]
              /\ log'[i].a = log'[1].a
              /\ log'[i].id = log'[1].id
              /\ log'[i].p = (IF i = 1 THEN state ELSE log'[i - 1].s)
              /\ log'[i].s = Applied(reducer[i], log'[i].p, log'[i].a)
        /\ state' = log'[Len(log')].s
        /\ (reducer = <<"add_one_reducer", "add_two_reducer">> /\ state = 0)
              => state' = 3]_vars

\* C13 witness: the second call of a chain of three reducers whose order
\* matters has left ((4 + 1) * 2) + 2.
ChainAppliesInOrderWitness ==
    /\ reducer = <<"add_one_reducer", "double_reducer", "add_two_reducer">>
    /\ ncycles = 2
    /\ Len(log) = 3
    /\ log[1].p = 4 /\ log[2].p = 5 /\ log[3].p = 10
    /\ state = 12

Stamps(c) == {j \in Positions : Is(j, "stamp") /\ log[j].c = c}

Returns(c) == {j \in Positions : Is(j, "return") /\ log[j].c = c}

\* The call from outside was dispatch(Increment) on state 0 with
\* counter_reducer and the single middleware inc_once, and it has returned.
IncOnceScenario ==
    /\ log # <<>>
    /\ Returns(log[1].c) # {}
    /\ log[1].a = "Increment"
    /\ log[1].s = 0
    /\ \A r \in Reduces(log[1].c) : log[r].h = "counter_reducer" /\ log[r].i = 1
    /\ \A m \in Calls(log[1].c, 0) : log[m].h = "inc_once"

RECURSIVE DispatchedActions(_)
DispatchedActions(l) ==
    IF l = <<>> THEN <<>>
    ELSE (IF Head(l).k = "dispatch" THEN <<Head(l).a>> ELSE <<>>)
            \o DispatchedActions(Tail(l))

\* The left fold of the reducer named r over the actions, from s
RECURSIVE FoldReducer(_, _, _)
FoldReducer(r, s, actions) ==
    IF actions = <<>> THEN s
    ELSE FoldReducer(r, Reduced(r, s, Head(actions)), Tail(actions))

RedispatchRegistered == \E i \in DOMAIN middlewares : middlewares[i] = "redispatch"

RedispatchCalled == \E j \in Positions : Is(j, "mw") /\ log[j].h = "redispatch"

\* C16: the store detects no cycle and limits no depth of re-entrant
\* dispatch: a handler that dispatches again whatever it is given starts a
\* nested cycle at every call the call stack has room for, and a dispatch from
\* outside that has such a handler registered never returns to Idle; a
\* dispatch whose handlers issue finitely many nested dispatches (no such
\* handler is registered) eventually returns.
RecursionUnlimitedElseReturns ==
    /\ [][(/\ ~Idle /\ Top.pc = "effects" /\ Top.i < Top.n
           /\ middlewares[Top.i + 1] = "redispatch"
           /\ Len(stack) < MaxDepth)
            => /\ Len(stack') = Len(stack) + 1
               /\ stack'[Len(stack')].action = Top.action
               /\ stack'[Len(stack')].pc = "stamp"]_vars
    /\ []((~Idle /\ RedispatchRegistered) => [](~Idle))
    /\ (~Idle /\ ~RedispatchRegistered) ~> Idle

\* C16 witness: the handler has dispatched again at every depth down to the
\* last the call stack has room for.
RecursionUnlimitedElseReturnsWitness ==
    /\ Len(stack) = MaxDepth
    /\ \A k \in 1..(MaxDepth - 1) :
          /\ stack[k].pc = "in_middleware"
          /\ middlewares[stack[k].i + 1] = "redispatch"
          /\ stack[k + 1].parent = stack[k].cid
          /\ stack[k + 1].action = stack[k].action
    /\ RedispatchCalled

ReplacesReducerBy(r2) ==
    \/ ReplaceReducer(r2)
    \/ CallMiddleware /\ middlewares[Top.i + 1] = "swapper" /\ r2 = "add_two_reducer"

\* C18: replace_reducer(r2) makes r2 the reducer and leaves the state as it
\* is, so a cycle whose reducer step has run keeps the result of the old
\* reducer; every reducer step made afterwards, in a cycle from outside or in
\* a cycle nested later in the same outer dispatch, calls r2 and nothing else.
ReplacedReducerReducesAfterwards ==
    [][/\ \A r2 \in Reducers :
            ReplacesReducerBy(r2) =>
                /\ reducer' = r2
                /\ state' = state
                /\ ~Idle => /\ SubSeq(log', 1, Len(log)) = log
                            /\ \A r \in Reduces(Top.cid) : state = log[r].s => state' = log[r].s
       /\ (~Idle /\ Top.pc = "reduce") =>
            /\ log'[Len(log) + 1].k = "reduce"
            /\ log'[Len(log) + 1].h = reducer
            /\ state' = Reduced(reducer, state, Top.action)
            /\ reducer' = reducer
       /\ \A m, r \in DOMAIN log' :
            (/\ m < r
             /\ log'[m].k = "mw" /\ log'[m].h = "swapper"
             /\ log'[r].k = "reduce")
                => /\ log'[r].h = "add_two_reducer"
                   /\ log'[r].s = log'[r].p + 2]_vars

\* C18 witness: a handler replaced the counter reducer after the outer cycle
\* had reduced with it (0 to 1), and the cycle nested afterwards in the same
\* dispatch reduced with the new one (1 to 3).
ReplacedReducerReducesAfterwardsWitness ==
    \E r1, m, r2 \in Positions :
        /\ r1 < m /\ m < r2
        /\ Is(r1, "reduce") /\ log[r1].h = "counter_reducer"
        /\ log[r1].p = 0 /\ log[r1].s = 1
        /\ Is(m, "mw") /\ log[m].h = "swapper" /\ log[m].c = log[r1].c
        /\ log[m].s = 1
        /\ Is(r2, "reduce") /\ log[r2].h = "add_two_reducer"
        /\ log[r2].c \in {log[d].c : d \in Nested(log[r1].c)}
        /\ log[r2].s = 3
        /\ state = 3

\* The number of middlewares registered when call c started its loop
LoopBound(c) == log[CHOOSE r \in Reduces(c) : TRUE].i

\* C19: the middlewares a cycle runs are those registered when its loop
\* starts: the bound of a loop in progress stays what it was, a cycle calls
\* no middleware beyond it and, returned, has called as many; a middleware
\* registered by a handler during the loop of a cycle is not called for that
\* cycle, and every cycle that reduces afterwards, nested in the same outer
\* dispatch or not, has it within its bound and has called it when it
\* returns.
MiddlewaresFixedAtLoopStart ==
    /\ \A k \in DOMAIN stack :
          stack[k].pc \in {"effects", "in_middleware"} =>
              /\ stack[k].n = LoopBound(stack[k].cid)
              /\ stack[k].n <= Len(middlewares)
    /\ \A r \in Positions :
          Is(r, "reduce") =>
              /\ \A m \in MiddlewareCalls(log[r].c) : log[m].i < log[r].i
              /\ Returns(log[r].c) # {} =>
                    Cardinality(MiddlewareCalls(log[r].c)) = log[r].i
    /\ \A m \in Positions :
          (Is(m, "mw") /\ log[m].h = "adder") =>
              /\ Len(middlewares) > LoopBound(log[m].c)
              /\ \A r2 \in Positions :
                    (Is(r2, "reduce") /\ m < r2) =>
                        /\ log[r2].i > LoopBound(log[m].c)
                        /\ Returns(log[r2].c) # {} =>
                              \E m2 \in MiddlewareCalls(log[r2].c) :
                                  /\ log[m2].i >= LoopBound(log[m].c)
                                  /\ log[m2].h = "logger"

\* C19 witness: a handler of the outer cycle registered a middleware; the
\* outer cycle returned without calling it, the cycle nested after the
\* registration called it.
MiddlewaresFixedAtLoopStartWitness ==
    \E m, d \in Positions :
        /\ Is(m, "mw") /\ log[m].h = "adder" /\ log[m].c = log[1].c
        /\ d \in Nested(log[1].c) /\ m < d
        /\ Returns(log[1].c) # {} /\ Returns(log[d].c) # {}
        /\ LoopBound(log[1].c) = 2
        /\ Calls(log[1].c, 2) = {}
        /\ \E m2 \in Calls(log[d].c, 2) : log[m2].h = "logger"

\* C20: next does not guard against leaving the 64 bits: it yields an id
\* strictly greater than previous exactly when previous + max(elapsed, 1) is
\* at most 2^64 - 1; when the sum is greater the call aborts (a build with
\* overflow checks) or yields the sum less 2^64, an id below previous.
NextGreaterIffNoOverflow ==
    calc.op = "next" =>
        /\ (~calc.panicked /\ U64Less(calc.a, calc.out)) <=> NextFits(calc.a, calc.b)
        /\ ~NextFits(calc.a, calc.b) =>
              \/ calc.panicked
              \/ /\ U64Less(calc.out, calc.a)
                 /\ U64Sub(calc.out, calc.a) = U64Max(calc.b, U64(1))
                 /\ U64Less(calc.out, U64Max(calc.b, U64(1)))

\* C20 witness: in a build without overflow checks the id after 2^64 - 2,
\* with 2^64 - 1 nanoseconds passed, is 2^64 - 3.
NextGreaterIffNoOverflowWitness ==
    /\ calc.op = "next"
    /\ ~calc.panicked
    /\ calc.a = <<Limb - 1, Limb - 1, Limb - 1, Limb - 2>>
    /\ calc.b = U64_MAX
    /\ calc.out = <<Limb - 1, Limb - 1, Limb - 1, Limb - 3>>

====
